---- MODULE Spec2Model ----
(***************************************************************************)
(* Draft / review / publish lifecycle of generated table descriptions and  *)
(* the batch generation-strategy orchestrator of dataplexutils.            *)
(*                                                                         *)
(* Sources: package/dataplexutils/metadata/wizard.py (Client),             *)
(* package/dataplexutils/metadata/dataplex_operations.py                   *)
(* (DataplexOperations), package/dataplexutils/metadata/table_operations.py*)
(* (TableOperations) and backend_apis/main.py (HTTP handlers).             *)
(*                                                                         *)
(* Texts are finite sequences of tokens.  The token "W" stands for the     *)
(* disclaimer constants['OUTPUT_CLAUSES']['AI_WARNING']; "g" is the text   *)
(* returned by the text-generation model, "m" is a text typed by an        *)
(* operator.  Python's None and a missing dictionary key are the reserved  *)
(* one-token texts NoneText and MissingText.                               *)
(***************************************************************************)
EXTENDS Integers, Sequences, FiniteSets, TLC

\* ------------------------------------------------------------------ bounds
\* largest id given to a comment or negative-example item
MaxComments == 2
\* longest canonical description kept
MaxLen == 3
\* longest listing of tables handed to _order_tables_to_strategy
MaxListing == 3
\* longest new description handed to _combine_description
MaxNew == 2
\* longest chain of merges into the description of one table
MaxMerges == 3

\* --------------------------------------------------------------- domains
Tables == {"t1", "t2"}           \* tables of the dataset
UnknownTable == "t9"             \* named by a mapping, not in the dataset
Listing == <<"t2", "t1">>           \* order in which the catalog lists the tables
W == "W"
NoneText == <<"None">>
MissingText == <<"Missing">>
LlmTexts == {<<"g">>}
ManualTexts == {<<"m">>}
CommentTexts == {"a", "b"}
ExampleTexts == {"a"}
Handlings == {"APPEND", "PREPEND", "REPLACE"}
Strategies == {"NAIVE", "RANDOM", "ALPHABETICAL", "DOCUMENTED", "DOCUMENTED_THEN_REST"}

\* Python truthiness of a description: None and "" are falsy
Truthy(t) == t # <<>> /\ t # NoneText

\* str.index(AI_WARNING): position of the first marker, 0 when str.index raises
IndexOfWarning(t) ==
    IF \E i \in 1..Len(t) : t[i] = W
    THEN CHOOSE i \in 1..Len(t) : t[i] = W /\ \A j \in 1..(i - 1) : t[j] # W
    ELSE 0

\* variant: APPEND never cuts the old description at the marker
CombineNoTruncate(old, new, handling) ==
    IF ~Truthy(new) THEN old
    ELSE IF handling = "APPEND" THEN (IF Truthy(old) THEN old \o new ELSE new)
    ELSE IF handling = "PREPEND" THEN new \o old
    ELSE IF handling = "REPLACE" THEN new
    ELSE old

\* variant: an empty new description is merged like any other text
CombineMergesEmpty(old, new, handling) ==
    IF new = NoneText THEN old
    ELSE IF handling = "APPEND"
         THEN IF Truthy(old)
              THEN IF IndexOfWarning(old) > 0
                   THEN SubSeq(old, 1, IndexOfWarning(old) - 1) \o new
                   ELSE old \o new
              ELSE new
    ELSE IF handling = "PREPEND" THEN new \o old
    ELSE IF handling = "REPLACE" THEN new
    ELSE old

\* variant: REPLACE puts the new text in front of the old one
CombineReplacePrepends(old, new, handling) ==
    IF ~Truthy(new) THEN old
    ELSE IF handling = "APPEND"
         THEN IF Truthy(old)
              THEN IF IndexOfWarning(old) > 0
                   THEN SubSeq(old, 1, IndexOfWarning(old) - 1) \o new
                   ELSE old \o new
              ELSE new
    ELSE new \o old

\* Client._combine_description
Combine(old, new, handling) ==
    IF ~Truthy(new) THEN old
    ELSE IF handling = "APPEND"
         THEN IF Truthy(old)
              THEN IF IndexOfWarning(old) > 0
                   THEN SubSeq(old, 1, IndexOfWarning(old) - 1) \o new
                   ELSE old \o new
              ELSE new
    ELSE IF handling = "PREPEND" THEN new \o old
    ELSE IF handling = "REPLACE" THEN new
    ELSE old

\* f"{AI_WARNING}{table_description}" when add_ai_warning is set
WithWarning(x, warn) == IF warn THEN <<W>> \o x ELSE x


\* ------------------------------------------------------- the draft aspect
\* One aspect of type ASPECT_TEMPLATE.name per table entry (path "").  Of its
\* data the model keeps contents, certified, to-be-regenerated, human-comments
\* and negative-examples; generation-date and user-who-certified are written
\* by the code but read by none of the operations modelled here.
\* certified / tbr hold what the code stores: the strings "false" / "true",
\* the boolean True written by mark_table_for_regeneration ("True"), or
\* "missing" when the key is not in the aspect data.
NoAspect ==
    [exists |-> FALSE, contents |-> MissingText, certified |-> "missing",
     tbr |-> "missing", comments |-> <<>>, negs |-> <<>>]

\* Aspect whose data is the empty Struct (written by add_comment when no aspect existed)
BareAspect == [NoAspect EXCEPT !.exists = TRUE]

\* metadata argument of update_table_draft_description as built by main.py
NoMeta == [kind |-> "none", comments |-> <<>>, negs |-> <<>>]
AcceptMeta(cs, ns) == [kind |-> "accept", comments |-> cs, negs |-> ns]
NegExMeta(cs, ns) == [kind |-> "negex", comments |-> cs, negs |-> ns]

\* dict.update(metadata) on the aspect data
ApplyMeta(a, meta) ==
    IF meta.kind = "accept"
    THEN [a EXCEPT !.certified = "true", !.tbr = "false",
                   !.comments = meta.comments, !.negs = meta.negs]
    ELSE IF meta.kind = "negex"
    THEN [a EXCEPT !.comments = meta.comments, !.negs = meta.negs]
    ELSE a

\* Client._update_table_draft_description: the aspect data that is written
DraftDataWizard(a, description) ==
    IF a.exists
    THEN [a EXCEPT !.contents = description, !.tbr = "false"]
    ELSE [exists |-> TRUE, contents |-> description, certified |-> "false",
          tbr |-> "false", comments |-> <<>>, negs |-> <<>>]

\* DataplexOperations.update_table_draft_description: the aspect data that is written
DraftDataOps(a, description, meta) ==
    IF a.exists
    THEN ApplyMeta([a EXCEPT !.contents = description, !.tbr = "false"], meta)
    ELSE ApplyMeta([exists |-> TRUE, contents |-> description, certified |-> "false",
                    tbr |-> "false", comments |-> <<>>, negs |-> <<>>], meta)

\* The draft update as the callers see it.  impl = "wizard": the method of the
\* monolithic Client (no metadata parameter: a call with metadata= raises
\* TypeError).  impl = "ops": DataplexOperations.update_table_draft_description.
\* f is the catalog failure met: "read" (get_entry raises), "write"
\* (update_entry raises, caught: the method returns False) or none.
\* Result: out = "ok" (True returned), "false" (False returned), "raise".
UpdateTableDraft(impl, a, description, meta, f) ==
    IF impl = "wizard" /\ meta.kind # "none" THEN [a |-> a, out |-> "raise"]
    ELSE IF f = "read" THEN [a |-> a, out |-> "raise"]
    ELSE IF f = "write" THEN [a |-> a, out |-> "false"]
    ELSE [a |-> IF impl = "wizard" THEN DraftDataWizard(a, description)
                ELSE DraftDataOps(a, description, meta),
          out |-> "ok"]

\* Client._check_if_table_should_be_regenerated: "yes", "no", or "raise"
\* (get_entry fails, or the aspect data has no "to-be-regenerated" key)
ShouldRegenerate(a, readFails) ==
    IF readFails THEN "raise"
    ELSE IF ~a.exists THEN "no"
    ELSE IF a.tbr = "missing" THEN "raise"
    ELSE IF a.tbr = "True" THEN "yes"
    ELSE "no"

\* ------------------------------------------------- canonical description
\* Client._update_table_bq_description: table.description after update_table
UpdateBq(b, description, handling) ==
    Combine(b, description, handling)

\* Client._update_table_dataplex_description writes the same description to
\* the overview aspect of the catalog entry.  The model keeps what the callers
\* see of it: get_entry failing raises, update_entry failing is caught and
\* the method returns False, which no caller looks at.


\* ------------------------------------------------------------- handlers
\* A handler works on the stores of one table: s = [a, b] is its draft
\* aspect and the description of its BigQuery table.  The
\* result is [s, out, lost]: out = "ok" when the caller is told the call
\* succeeded and "raise" when it gets an error; lost = TRUE when a write the
\* call attempted was rejected by the store and the call went on regardless.

\* variant: a client that stages for review also writes the BigQuery description
GenerateOneWritesBoth(o, impl, s, x, f) ==
    LET desc == WithWarning(x, o.warn)
        b1 == UpdateBq(s.b, desc, o.handling)
        r == UpdateTableDraft(impl, s.a, desc, NoMeta, f)
    IN IF f \in {"notfound", "llm"} THEN [s |-> s, out |-> "raise", lost |-> FALSE]
       ELSE IF ~o.stage
       THEN IF f = "bq" THEN [s |-> s, out |-> "raise", lost |-> FALSE]
            ELSE IF ~o.persist
                 THEN [s |-> [s EXCEPT !.b = b1], out |-> "ok", lost |-> FALSE]
            ELSE IF f = "read"
                 THEN [s |-> [s EXCEPT !.b = b1], out |-> "raise", lost |-> FALSE]
            ELSE [s |-> [s EXCEPT !.b = b1], out |-> "ok", lost |-> f = "write"]
       ELSE IF r.out = "raise" THEN [s |-> s, out |-> "raise", lost |-> FALSE]
            ELSE [s |-> [a |-> r.a, b |-> b1], out |-> "ok", lost |-> r.out = "false"]

\* Client.generate_table_description / TableOperations.generate_table_description
\* x: text returned by _llm_inference; f: the failure met, if any
\*   "notfound" _table_exists raises NotFound, "llm" _llm_inference re-raises
\*   after its last attempt, "bq" update_table fails, "read" / "write" the
\*   catalog get_entry / update_entry fails.
GenerateOne(o, impl, s, x, f) ==
    LET desc == WithWarning(x, o.warn)
        b1 == UpdateBq(s.b, desc, o.handling)
        r == UpdateTableDraft(impl, s.a, desc, NoMeta, f)
    IN IF f \in {"notfound", "llm"} THEN [s |-> s, out |-> "raise", lost |-> FALSE]
       ELSE IF ~o.stage
       THEN IF f = "bq" THEN [s |-> s, out |-> "raise", lost |-> FALSE]
            ELSE IF ~o.persist
                 THEN [s |-> [s EXCEPT !.b = b1], out |-> "ok", lost |-> FALSE]
            ELSE IF f = "read"
                 THEN [s |-> [s EXCEPT !.b = b1], out |-> "raise", lost |-> FALSE]
            ELSE [s |-> [s EXCEPT !.b = b1], out |-> "ok", lost |-> f = "write"]
       ELSE IF r.out = "raise" THEN [s |-> s, out |-> "raise", lost |-> FALSE]
            ELSE [s |-> [s EXCEPT !.a = r.a], out |-> "ok", lost |-> r.out = "false"]

\* main.update_table_draft_description: manual overwrite of the draft
StageOne(impl, s, text, f) ==
    LET r == UpdateTableDraft(impl, s.a, text, NoMeta, f)
    IN [s |-> [s EXCEPT !.a = r.a],
        out |-> IF r.out = "ok" THEN "ok" ELSE "raise", lost |-> FALSE]

\* Client.edit_review_item (table item): the result of the update is not looked at
EditOne(impl, s, text, f) ==
    LET r == UpdateTableDraft(impl, s.a, text, NoMeta, f)
    IN [s |-> [s EXCEPT !.a = r.a],
        out |-> IF r.out = "raise" THEN "raise" ELSE "ok", lost |-> r.out = "false"]

\* variant: a table without aspect gets one, flagged
MarkOneCreates(s, f) ==
    IF f # "none" THEN [s |-> s, out |-> "raise", lost |-> FALSE]
    ELSE [s |-> [s EXCEPT !.a = [(IF s.a.exists THEN s.a ELSE BareAspect)
                                    EXCEPT !.tbr = "True"]],
          out |-> "ok", lost |-> FALSE]

\* Client.mark_table_for_regeneration behind main.mark_for_regeneration
MarkOne(s, f) ==
    IF f # "none" \/ ~s.a.exists THEN [s |-> s, out |-> "raise", lost |-> FALSE]
    ELSE [s |-> [s EXCEPT !.a = [s.a EXCEPT !.tbr = "True"]],
          out |-> "ok", lost |-> FALSE]

NewItem(id, text, kind) == [id |-> id, text |-> text, kind |-> kind]

\* variant: the new comment is put in front of the list
AddCommentOnePrepends(s, text, id, f) ==
    IF f # "none" THEN [s |-> s, out |-> "raise", lost |-> FALSE]
    ELSE [s |-> [s EXCEPT !.a =
                    IF s.a.exists
                    THEN [s.a EXCEPT !.comments = <<NewItem(id, text, "human")>> \o @]
                    ELSE BareAspect],
          out |-> "ok", lost |-> FALSE]

\* Client.add_comment_to_table_draft_description behind main.add_comment
AddCommentOne(s, text, id, f) ==
    IF f # "none" THEN [s |-> s, out |-> "raise", lost |-> FALSE]
    ELSE [s |-> [s EXCEPT !.a =
                    IF s.a.exists
                    THEN [s.a EXCEPT !.comments = Append(@, NewItem(id, text, "human"))]
                    ELSE BareAspect],
          out |-> "ok", lost |-> FALSE]

\* Client.get_comments_to_table_draft_description /
\* get_negative_examples_to_table_draft_description: [] on any exception
ReadItems(items, readFails) == IF readFails THEN <<>> ELSE items

\* main.add_negative_example
AddNegativeExampleOne(impl, s, text, id, fc, fn, f) ==
    LET cs == ReadItems(s.a.comments, fc)
        ns == Append(ReadItems(s.a.negs, fn), NewItem(id, text, "negative"))
        r == UpdateTableDraft(impl, s.a, NoneText, NegExMeta(cs, ns), f)
    IN [s |-> [s EXCEPT !.a = r.a],
        out |-> IF r.out = "ok" THEN "ok" ELSE "raise", lost |-> FALSE]

\* Client.accept_table_draft_description (also behind Client.accept_review_item)
\* f: "read" get_entry of the draft fails, "ovread" / "ovwrite" get_entry /
\* update_entry of the overview fails, "bq" the BigQuery update fails.
AcceptLibOne(o, s, f) ==
    LET d == s.a.contents
        b1 == UpdateBq(s.b, d, o.handling)
    IN IF f = "read" \/ ~s.a.exists \/ d = MissingText
       THEN [s |-> s, out |-> "raise", lost |-> FALSE]
       ELSE IF f \in {"ovread", "bq"}
       THEN [s |-> s, out |-> "raise", lost |-> FALSE]
       ELSE [s |-> [s EXCEPT !.b = b1], out |-> "ok", lost |-> f = "ovwrite"]

\* main.accept_table_draft_description
\* f1: failure of the aspect update, f: failure of the promotion that follows
AcceptHttpOne(o, impl, s, fc, fn, f1, f) ==
    LET cs == ReadItems(s.a.comments, fc)
        ns == ReadItems(s.a.negs, fn)
        r == UpdateTableDraft(impl, s.a, NoneText, AcceptMeta(cs, ns), f1)
    IN IF r.out # "ok" THEN [s |-> s, out |-> "raise", lost |-> FALSE]
       ELSE AcceptLibOne(o, [s EXCEPT !.a = r.a], f)


\* ---------------------------------------------------------------- state
VARIABLES
    aspect,     \* table -> draft aspect in the catalog (NoAspect when none)
    bqDesc,     \* table -> description of the BigQuery table
    options,    \* the ClientOptions of the client (mutable, shared)
    impl,       \* the draft update behind client._update_table_draft_description:
                \* "wizard" (wizard.Client, no metadata parameter) or "ops"
                \* (DataplexOperations, which main.py's metadata= calls fit)
    last        \* the last call: operation, table, outcome, arguments

vars == <<aspect, bqDesc, options, impl, last>>

\* no documentation_uri passed to generate_table_description
NoDoc == "None"

\* mapping of a call that passed no documentation_csv_uri
NoUri == <<<<"None", NoDoc>>>>

\* The last call.  For a batch run: calls / docs are the tables passed to
\* generate_table_description and the documentation_uri passed with each,
\* listed tells whether the tables of the dataset were asked for ("no",
\* "failed" when the listing raised, "yes"), named is
\* the table the ValueError raised names ("none" when there is none).
\* For addComment / addNegativeExample: text is the text passed.
\* For _order_tables_to_strategy: tables is the list passed, calls the list returned.
\* For the accept of SpecAccept: fail is the step of the handler that failed.
\* For the concurrent runs of SpecRace: runs is the position of each run and
\* the entry it read, writer the run whose update_entry came last.
\* For _llm_inference: attempt is the loop variable, tries the outcome of each
\* generate_content call made so far (the exception raised or the text
\* returned), waits the time.sleep calls made, out = "running" inside the
\* loop; text is the text returned and named the exception raised.
\* For _update_table_bq_description: old is the description the table had,
\* new the description passed,
\* merges the number of such calls that passed a text to the table so far.
NoCall ==
    [op |-> "none", e |-> "none", out |-> "ok", lost |-> FALSE, calls |-> <<>>,
     docs |-> <<>>, listed |-> "no", named |-> "none", text |-> "none",
     tables |-> <<>>, old |-> <<>>, new |-> <<>>, merges |-> 0, strategy |-> "none", regenerate |-> FALSE, mapping |-> NoUri,
     fail |-> "none", attempt |-> 0, waits |-> <<>>, tries |-> <<>>,
     runs |-> <<>>, writer |-> "none"]

\* ClientOptions.__init__: the options a client is built with
InitOptions ==
    [stage : BOOLEAN, handling : Handlings, warn : {TRUE}, persist : BOOLEAN,
     regenerate : {FALSE}, humanComments : {FALSE}]

\* Spec: the draft / review / publish lifecycle of one table, with a client
\* that stages for review (stage_for_review = True)
Init ==
    /\ aspect = [e \in Tables |-> NoAspect]
    /\ bqDesc = [e \in Tables |-> <<>>]
    /\ options \in {o \in InitOptions : o.stage /\ o.persist}
    /\ impl \in {"wizard", "ops"}
    /\ last = NoCall

Stores(e) == [a |-> aspect[e], b |-> bqDesc[e]]

WithinBounds(s) ==
    /\ Len(s.b) <= MaxLen

\* the stores of table e become r.s and the call is recorded
CommitText(e, result, op, text) ==
    \E r \in {result} :
        /\ WithinBounds(r.s)
        /\ aspect' = [aspect EXCEPT ![e] = r.s.a]
        /\ bqDesc' = [bqDesc EXCEPT ![e] = r.s.b]
        /\ last' = [NoCall EXCEPT !.op = op, !.e = e, !.out = r.out, !.lost = r.lost,
                                  !.text = text]

Commit(e, result, op) == CommitText(e, result, op, "none")

\* str(uuid.uuid4()): an id that no item of the aspect carries
ItemIds(a) ==
    {a.comments[i].id : i \in 1..Len(a.comments)} \cup {a.negs[i].id : i \in 1..Len(a.negs)}

FreshId(a) ==
    LET used == ItemIds(a) \cup {0}
    IN 1 + CHOOSE n \in used : \A m \in used : m <= n

GenFailures(o) ==
    IF o.stage THEN {"none", "notfound", "llm", "read", "write"}
    ELSE IF o.persist THEN {"none", "notfound", "llm", "bq", "read", "write"}
    ELSE {"none", "notfound", "llm", "bq"}

CatalogFailures == {"none", "read", "write"}
AcceptFailures == {"none", "read", "ovread", "ovwrite", "bq"}

Generate(e) ==
    \E x \in LlmTexts, f \in GenFailures(options) :
        /\ Commit(e, GenerateOne(options, impl, Stores(e), x, f), "generate")
        /\ UNCHANGED <<options, impl>>

Stage(e) ==
    \E t \in ManualTexts, f \in CatalogFailures :
        /\ Commit(e, StageOne(impl, Stores(e), t, f), "stage")
        /\ UNCHANGED <<options, impl>>

Edit(e) ==
    \E t \in ManualTexts, f \in CatalogFailures :
        /\ Commit(e, EditOne(impl, Stores(e), t, f), "edit")
        /\ UNCHANGED <<options, impl>>

MarkForRegeneration(e) ==
    \E f \in CatalogFailures :
        /\ Commit(e, MarkOne(Stores(e), f), "mark")
        /\ UNCHANGED <<options, impl>>

AddComment(e) ==
    \E c \in CommentTexts, f \in CatalogFailures :
        /\ FreshId(aspect[e]) <= MaxComments
        /\ CommitText(e, AddCommentOne(Stores(e), c, FreshId(aspect[e]), f), "comment", c)
        /\ UNCHANGED <<options, impl>>

AddNegativeExample(e) ==
    \E c \in ExampleTexts, fc \in BOOLEAN, fn \in BOOLEAN, f \in CatalogFailures :
        /\ FreshId(aspect[e]) <= MaxComments
        /\ (fc \/ fn) => f = "none"
        /\ CommitText(e, AddNegativeExampleOne(impl, Stores(e), c, FreshId(aspect[e]), fc, fn, f),
                      "negative", c)
        /\ UNCHANGED <<options, impl>>

AcceptHttp(e) ==
    \E fc \in BOOLEAN, fn \in BOOLEAN, f1 \in CatalogFailures, f \in AcceptFailures :
        /\ f1 = "none" \/ f = "none"
        /\ (fc \/ fn) => (f1 = "none" /\ f = "none")
        /\ Commit(e, AcceptHttpOne(options, impl, Stores(e), fc, fn, f1, f), "accept")
        /\ UNCHANGED <<options, impl>>

AcceptReviewItem(e) ==
    \E f \in AcceptFailures :
        /\ Commit(e, AcceptLibOne(options, Stores(e), f), "promote")
        /\ UNCHANGED <<options, impl>>

LifeTables == {"t1"}

Next ==
    \E e \in LifeTables :
        \/ Generate(e)
        \/ Stage(e)
        \/ Edit(e)
        \/ MarkForRegeneration(e)
        \/ AddComment(e)
        \/ AddNegativeExample(e)
        \/ AcceptHttp(e)
        \/ AcceptReviewItem(e)

Spec == Init /\ [][Next]_vars

\* ------------------------------------------------- the batch orchestrator
InSeq(x, sq) == \E i \in 1..Len(sq) : sq[i] = x

\* sorted(tables): the table names in lexicographic order
AlphaOrder == <<"t1", "t2", "t3", UnknownTable>>
Sorted(tables) == SelectSeq(AlphaOrder, LAMBDA t : InSeq(t, tables))

\* random.shuffle(tables_copy): any order of the same tables
Shuffles(tables) ==
    LET names == {tables[i] : i \in 1..Len(tables)}
    IN {sq \in [1..Len(tables) -> names] : \A t \in names : InSeq(t, sq)}

\* variant: ALPHABETICAL returns the list as it came, NAIVE the sorted one
OrderTablesToStrategySwapped(tables, strategy, shuffled) ==
    IF strategy = "NAIVE" THEN Sorted(tables)
    ELSE IF strategy = "RANDOM" THEN shuffled
    ELSE tables

\* Client._order_tables_to_strategy
OrderTablesToStrategy(tables, strategy, shuffled) ==
    IF strategy = "NAIVE" THEN tables
    ELSE IF strategy = "RANDOM" THEN shuffled
    ELSE IF strategy = "ALPHABETICAL" THEN Sorted(tables)
    ELSE tables

\* _get_tables_from_uri returns the rows (table, document) of the mapping;
\* [table[0] for table in tables_from_uri]
FirstElements(mapping) == [i \in 1..Len(mapping) |-> mapping[i][1]]

\* A plan is the sequence of calls generate_dataset_tables_descriptions makes
\* to generate_table_description, in order, each a pair (table,
\* documentation_uri); the entry ("!", t) is a raise ValueError naming t.
Abort == "!"
Aborted(plan) == plan # <<>> /\ plan[Len(plan)][1] = Abort

\* generate_table_description(table): no documentation_uri
WithoutDoc(tables) == [i \in 1..Len(tables) |-> <<tables[i], NoDoc>>]

\* variant: every listed table is generated, whatever the mapping says
DocumentedPlanAllListed(mapping, tables) == WithoutDoc(tables)

\* DOCUMENTED, first run: the rows of the mapping, each checked against the listing
RECURSIVE DocumentedPlan(_, _)
DocumentedPlan(mapping, tables) ==
    IF mapping = <<>> THEN <<>>
    ELSE IF ~InSeq(Head(mapping)[1], tables) THEN <<<<Abort, Head(mapping)[1]>>>>
    ELSE <<Head(mapping)>> \o DocumentedPlan(Tail(mapping), tables)

\* regenerate run of DOCUMENTED / DOCUMENTED_THEN_REST: the listed tables
\* whose flag is set, each of which has to be in the mapping
RECURSIVE FlaggedPlan(_, _, _)
FlaggedPlan(tables, a, mapping) ==
    IF tables = <<>> THEN <<>>
    ELSE LET t == Head(tables)
             c == ShouldRegenerate(a[t], FALSE)
         IN IF c = "raise" THEN <<<<Abort, "none">>>>
            ELSE IF c = "no" THEN FlaggedPlan(Tail(tables), a, mapping)
            ELSE IF ~InSeq(t, FirstElements(mapping)) THEN <<<<Abort, t>>>>
            ELSE <<<<t, NoDoc>>>> \o FlaggedPlan(Tail(tables), a, mapping)

\* DOCUMENTED_THEN_REST, last loop: every listed table the mapping does not name
RestPlan(tables, mapping) ==
    WithoutDoc(SelectSeq(tables, LAMBDA t : ~InSeq(t, FirstElements(mapping))))

\* Client.generate_dataset_tables_descriptions: what it does after listing the tables.
\* DOCUMENTED_THEN_REST, first run: "table not in tables" compares the row
\* (a tuple) with the listed names, so the first row of the mapping raises.
BatchPlan(strategy, regenerate, mapping, tables, a, shuffled) ==
    IF strategy = "DOCUMENTED"
    THEN IF ~regenerate THEN DocumentedPlan(mapping, tables)
         ELSE FlaggedPlan(tables, a, mapping)
    ELSE IF strategy = "DOCUMENTED_THEN_REST"
    THEN IF ~regenerate
         THEN IF mapping # <<>> THEN <<<<Abort, Head(mapping)[1]>>>>
              ELSE RestPlan(tables, mapping)
         ELSE LET flagged == FlaggedPlan(tables, a, mapping)
              IN IF Aborted(flagged) THEN flagged
                 ELSE flagged \o RestPlan(tables, mapping)
    ELSE WithoutDoc(OrderTablesToStrategy(tables, strategy, shuffled))

\* the loop over a plan, reached once the tables are listed: the call number
\* `at` meets the failure f
RECURSIVE ExecPlan(_, _, _, _, _, _, _, _)
ExecPlan(o, im, st, plan, x, n, at, f) ==
    IF plan = <<>>
    THEN [a |-> st.a, b |-> st.b, out |-> "ok", lost |-> FALSE, calls |-> <<>>,
          docs |-> <<>>, named |-> "none", listed |-> "yes"]
    ELSE IF Head(plan)[1] = Abort
    THEN [a |-> st.a, b |-> st.b, out |-> "raise", lost |-> FALSE, calls |-> <<>>,
          docs |-> <<>>, named |-> Head(plan)[2], listed |-> "yes"]
    ELSE LET t == Head(plan)[1]
             r == GenerateOne(o, im, [a |-> st.a[t], b |-> st.b[t]], x,
                              IF n + 1 = at THEN f ELSE "none")
             st1 == [a |-> [st.a EXCEPT ![t] = r.s.a], b |-> [st.b EXCEPT ![t] = r.s.b]]
             rest == ExecPlan(o, im, st1, Tail(plan), x, n + 1, at, f)
         IN IF r.out = "raise"
            THEN [a |-> st1.a, b |-> st1.b, out |-> "raise", lost |-> r.lost,
                  calls |-> <<t>>, docs |-> <<Head(plan)[2]>>, named |-> "none",
                  listed |-> "yes"]
            ELSE [rest EXCEPT !.calls = <<t>> \o @, !.docs = <<Head(plan)[2]>> \o @,
                              !.lost = @ \/ r.lost]

\* a run that raises before its loop
BatchRaise(st, listed) ==
    [a |-> st.a, b |-> st.b, out |-> "raise", lost |-> FALSE, calls |-> <<>>,
     docs |-> <<>>, named |-> "none", listed |-> listed]

\* variant: the tables are listed before the arguments are looked at
GenerateDatasetTablesListsFirst(o, im, st, strategy, mapping, shuffled, x, listFails, at, f) ==
    IF listFails THEN BatchRaise(st, "failed")
    ELSE IF strategy \notin Strategies THEN BatchRaise(st, "yes")
    ELSE IF mapping = NoUri /\ strategy \in {"DOCUMENTED", "DOCUMENTED_THEN_REST"}
    THEN BatchRaise(st, "yes")
    ELSE ExecPlan(o, im, st,
                  BatchPlan(strategy, o.regenerate, mapping, Listing, st.a, shuffled),
                  x, 0, at, f)

\* Client.generate_dataset_tables_descriptions
\* listFails: _list_tables_in_dataset(_for_regeneration) raises
GenerateDatasetTables(o, im, st, strategy, mapping, shuffled, x, listFails, at, f) ==
    IF strategy \notin Strategies THEN BatchRaise(st, "no")
    ELSE IF strategy = "DOCUMENTED" /\ mapping = NoUri THEN BatchRaise(st, "no")
    ELSE IF listFails THEN BatchRaise(st, "failed")
    ELSE IF strategy = "DOCUMENTED_THEN_REST" /\ mapping = NoUri THEN BatchRaise(st, "yes")
    ELSE ExecPlan(o, im, st,
                  BatchPlan(strategy, o.regenerate, mapping, Listing, st.a, shuffled),
                  x, 0, at, f)

\* rows of the documentation CSV: a table and its document
Row(t) == <<t, "doc-" \o t>>
Mappings == {NoUri, <<>>, <<Row("t1")>>, <<Row(UnknownTable)>>, <<Row("t2"), Row("t1")>>}

\* the arguments of a run: a strategy name and, for the strategies that read
\* it, the mapping behind documentation_csv_uri
BatchArgs ==
    {<<st, NoUri>> : st \in {"NAIVE", "RANDOM", "ALPHABETICAL", "BOGUS"}}
        \cup ({"DOCUMENTED", "DOCUMENTED_THEN_REST"} \X Mappings)

\* the failures a run meets: none, the listing fails ("list"), or the call
\* number at of generate_table_description meets f
BatchFailures(o) ==
    {<<0, "none">>, <<0, "list">>} \cup ((1..Len(Listing)) \X (GenFailures(o) \ {"none"}))

CommitBatch(o, strategy, mapping, shuffled, x, at, f) ==
    \E r \in {GenerateDatasetTables(o, impl, [a |-> aspect, b |-> bqDesc], strategy,
                                     mapping, shuffled, x, f = "list", at, f)} :
       /\ \A t \in Tables : Len(r.b[t]) <= MaxLen
       /\ aspect' = r.a
       /\ bqDesc' = r.b
       /\ options' = o
       /\ last' = [op |-> "batch", e |-> "none", out |-> r.out, lost |-> r.lost,
                   calls |-> r.calls, docs |-> r.docs, listed |-> r.listed,
                   named |-> r.named, text |-> "none", tables |-> <<>>, old |-> <<>>,
                   new |-> <<>>, merges |-> 0,
                   strategy |-> strategy,
                   regenerate |-> o.regenerate, mapping |-> mapping, fail |-> "none",
                   attempt |-> 0, waits |-> <<>>, tries |-> <<>>,
                   runs |-> <<>>, writer |-> "none"]
       /\ UNCHANGED impl

GenerateDataset ==
    \E arg \in BatchArgs, fl \in BatchFailures(options), x \in LlmTexts :
        \E shuffled \in IF arg[1] = "RANDOM" THEN Shuffles(Listing) ELSE {Listing} :
            CommitBatch(options, arg[1], arg[2], shuffled, x, fl[1], fl[2])

\* Client.regenerate_dataset_tables_descriptions
RegenerateDataset ==
    \E arg \in BatchArgs, fl \in BatchFailures(options), x \in LlmTexts :
        \E shuffled \in IF arg[1] = "RANDOM" THEN Shuffles(Listing) ELSE {Listing} :
            CommitBatch([options EXCEPT !.regenerate = TRUE, !.humanComments = TRUE],
                        arg[1], arg[2], shuffled, x, fl[1], fl[2])

\* SpecBatch: batch runs over the tables of a dataset, with a client that
\* stages for review or writes the canonical description directly
InitBatch ==
    /\ aspect = [e \in Tables |-> NoAspect]
    /\ bqDesc = [e \in Tables |-> <<>>]
    /\ options \in {o \in InitOptions : o.persist /\ o.handling = "APPEND"}
    /\ impl \in {"wizard", "ops"}
    /\ last = NoCall

NextBatch ==
    \/ GenerateDataset
    \/ RegenerateDataset
    \/ \E e \in Tables : Stage(e)
    \/ \E e \in Tables : MarkForRegeneration(e)

SpecBatch == InitBatch /\ [][NextBatch]_vars

\* ------------------------------------------------- ordering of a listing
\* SpecOrder: _order_tables_to_strategy applied to a list of distinct table
\* names, as _list_tables_in_dataset returns them
Listings ==
    UNION {{l \in [1..n -> {AlphaOrder[i] : i \in 1..Len(AlphaOrder)}] :
               \A i, j \in 1..n : l[i] = l[j] => i = j} : n \in 0..MaxListing}

InitOrder ==
    /\ aspect = [e \in Tables |-> NoAspect]
    /\ bqDesc = [e \in Tables |-> <<>>]
    /\ options \in {o \in InitOptions : o.stage /\ o.persist /\ o.handling = "APPEND"}
    /\ impl = "wizard"
    /\ \E l \in Listings, st \in Strategies :
           last = [NoCall EXCEPT !.op = "listing", !.tables = l, !.strategy = st]

OrderTables ==
    /\ last.op = "listing"
    /\ \E shuffled \in Shuffles(last.tables) :
           last' = [last EXCEPT !.op = "order",
                      !.calls = OrderTablesToStrategy(last.tables, last.strategy, shuffled)]
    /\ UNCHANGED <<aspect, bqDesc, options, impl>>

NextOrder == OrderTables

SpecOrder == InitOrder /\ [][NextOrder]_vars

\* ------------------------------------------------ merging of descriptions
\* SpecCombine: _combine_description as _update_table_bq_description applies
\* it, to the description a table has and the description passed (a
\* generated text or the contents of a draft).  Descriptions are any texts over the tokens.
Tokens == {W, "m", "g"}
TextsUpTo(n) == UNION {[1..k -> Tokens] : k \in 0..n}

InitCombine ==
    /\ aspect = [e \in Tables |-> NoAspect]
    /\ \E old \in TextsUpTo(MaxLen) : bqDesc = [e \in Tables |-> IF e = "t1" THEN old ELSE <<>>]
    /\ options \in {o \in InitOptions : o.stage /\ o.persist}
    /\ impl = "wizard"
    /\ last = NoCall

\* Client._update_table_bq_description(table_fqn, description): description
\* is a text or None (the contents read from a draft that has none)
UpdateTableBqDescription(e) ==
    \E description \in TextsUpTo(MaxNew) \cup {NoneText} :
        \E r \in {UpdateBq(bqDesc[e], description, options.handling)} :
            /\ Len(r) <= MaxLen
            /\ last.merges < MaxMerges
            /\ bqDesc' = [bqDesc EXCEPT ![e] = r]
            /\ last' = [NoCall EXCEPT !.op = "combine", !.e = e, !.old = bqDesc[e],
                                      !.new = description,
                                      !.merges = IF description = NoneText
                                                 THEN last.merges
                                                 ELSE last.merges + 1]
            /\ UNCHANGED <<aspect, options, impl>>

NextCombine == UpdateTableBqDescription("t1")

SpecCombine == InitCombine /\ [][NextCombine]_vars


\* ------------------------------------------------- the steps of accept
\* SpecAccept: main.accept_table_draft_description on a client that stages for
\* review, each call recorded with the step that failed: "draft" (the update
\* of the aspect that certifies), "read" (the promotion could not read the
\* draft), "ovread" / "ovwrite" (get_entry / update_entry of the overview),
\* "bq" (the update of the BigQuery table), or "none".
AcceptDraft(e) ==
    \E f1 \in CatalogFailures, f \in AcceptFailures :
        /\ f1 = "none" \/ f = "none"
        /\ \E r \in {AcceptHttpOne(options, impl, Stores(e), FALSE, FALSE, f1, f)},
              c \in {UpdateTableDraft(impl, aspect[e], NoneText, AcceptMeta(aspect[e].comments, aspect[e].negs), f1)} :
              /\ WithinBounds(r.s)
              /\ aspect' = [aspect EXCEPT ![e] = r.s.a]
              /\ bqDesc' = [bqDesc EXCEPT ![e] = r.s.b]
              /\ last' = [NoCall EXCEPT !.op = "accept", !.e = e, !.out = r.out,
                                        !.lost = r.lost,
                                        !.fail = IF c.out # "ok" THEN "draft"
                                                 ELSE IF ~c.a.exists \/ c.a.contents = MissingText
                                                 THEN "read"
                                                 ELSE f]
        /\ UNCHANGED <<options, impl>>

NextAccept ==
    \E e \in LifeTables :
        \/ AcceptDraft(e)
        \/ Generate(e)
        \/ Stage(e)
        \/ MarkForRegeneration(e)
        \/ AcceptReviewItem(e)

SpecAccept == Init /\ [][NextAccept]_vars


\* ------------------------------------------------ the text-generation call
\* SpecRetry: Client._llm_inference, one step per pass of its loop
\* `for attempt in range(retries+1)`.
Retries == 3
BaseDelay == 1
\* exceptions model.generate_content can raise, and texts it can return
LlmErrors == {"e1", "e2", "e3"}
Responses == {"g", "h"}

\* variant: the wait grows by base_delay with each attempt
BackoffLinear(attempt) == BaseDelay * (attempt + 1)

\* base_delay * (2 ** attempt)
Backoff(attempt) == BaseDelay * 2^attempt

InitRetry ==
    /\ aspect = [e \in Tables |-> NoAspect]
    /\ bqDesc = [e \in Tables |-> <<>>]
    /\ options \in {o \in InitOptions : o.stage /\ o.persist}
    /\ impl = "wizard"
    /\ last = [NoCall EXCEPT !.op = "llm", !.out = "running"]

\* the try block reaches `return responses.text`
LlmAttemptReturns ==
    /\ last.op = "llm" /\ last.out = "running"
    /\ \E x \in Responses :
           last' = [last EXCEPT !.tries = Append(@, x), !.out = "ok", !.text = x]
    /\ UNCHANGED <<aspect, bqDesc, options, impl>>

\* the try block raises: re-raise on the last pass, sleep and loop otherwise
LlmAttemptRaises ==
    /\ last.op = "llm" /\ last.out = "running"
    /\ \E err \in LlmErrors :
           last' = IF last.attempt = Retries
                   THEN [last EXCEPT !.tries = Append(@, err), !.out = "raise",
                                     !.named = err]
                   ELSE [last EXCEPT !.tries = Append(@, err),
                                     !.waits = Append(@, Backoff(last.attempt)),
                                     !.attempt = @ + 1]
    /\ UNCHANGED <<aspect, bqDesc, options, impl>>

NextRetry ==
    \/ LlmAttemptReturns
    \/ LlmAttemptRaises

\* generate_content returns or raises, and the loop runs in the caller's thread
SpecRetry == InitRetry /\ [][NextRetry]_vars /\ WF_vars(NextRetry)


\* ------------------------------------------------------ concurrent runs
\* SpecRace: two runs on the draft aspect of one table.  Each run makes calls
\* to _update_table_draft_description (op "draft") or
\* add_comment_to_table_draft_description (op "comment"); a call is two
\* steps, client.get_entry and client.update_entry, and the steps of the two
\* runs interleave.  Between the two steps a run holds the aspect it read
\* (snap) and what it is about to add.
Runs == {"r1", "r2"}

IdleRun ==
    [pc |-> "idle", op |-> "none", snap |-> NoAspect, desc |-> NoneText,
     text |-> "none", id |-> 0]

\* variant: the catalog rejects an update made from an aspect that is no
\* longer the stored one
UpdateEntryIfUnchanged(stored, read, new) == IF stored = read THEN new ELSE stored

\* client.update_entry(request) with update_mask aspects and aspect_keys: the
\* aspect of the request replaces the stored one; the request carries no
\* version or etag of the entry that was read
UpdateEntry(stored, read, new) == new

\* new_aspect.data as the call builds it from the entry it read
Modified(im, run) ==
    IF run.op = "draft" THEN UpdateTableDraft(im, run.snap, run.desc, NoMeta, "none").a
    ELSE AddCommentOne([a |-> run.snap, b |-> <<>>], run.text, run.id, "none").s.a

\* str(uuid.uuid4()) of a run: an id carried by no item stored or read
FreshRunId(a, runs) ==
    LET used == ItemIds(a) \cup {0} \cup {runs[r].id : r \in Runs}
                \cup UNION {ItemIds(runs[r].snap) : r \in Runs}
    IN 1 + CHOOSE n \in used : \A m \in used : m <= n

InitRace ==
    /\ aspect = [e \in Tables |-> NoAspect]
    /\ bqDesc = [e \in Tables |-> <<>>]
    /\ options \in {o \in InitOptions : o.stage /\ o.persist /\ o.handling = "APPEND"}
    /\ impl \in {"wizard", "ops"}
    /\ last = [NoCall EXCEPT !.op = "race", !.e = "t1", !.runs = [r \in Runs |-> IdleRun]]

\* entry = client.get_entry(request) of a draft update
RunReadsForDraft(r) ==
    /\ last.op = "race" /\ last.runs[r].pc \in {"idle", "done"}
    /\ \E x \in LlmTexts :
           last' = [last EXCEPT !.runs[r] =
                       [pc |-> "read", op |-> "draft", snap |-> aspect[last.e],
                        desc |-> WithWarning(x, options.warn), text |-> "none", id |-> 0]]
    /\ UNCHANGED <<aspect, bqDesc, options, impl>>

\* entry = client.get_entry(request) of an added comment
RunReadsForComment(r) ==
    /\ last.op = "race" /\ last.runs[r].pc \in {"idle", "done"}
    /\ FreshRunId(aspect[last.e], last.runs) <= MaxComments
    /\ \E c \in CommentTexts :
           last' = [last EXCEPT !.runs[r] =
                       [pc |-> "read", op |-> "comment", snap |-> aspect[last.e],
                        desc |-> NoneText, text |-> c,
                        id |-> FreshRunId(aspect[last.e], last.runs)]]
    /\ UNCHANGED <<aspect, bqDesc, options, impl>>

\* client.update_entry(request) of either call
RunWrites(r) ==
    /\ last.op = "race" /\ last.runs[r].pc = "read"
    /\ aspect' = [aspect EXCEPT ![last.e] =
                      UpdateEntry(@, last.runs[r].snap, Modified(impl, last.runs[r]))]
    /\ last' = [last EXCEPT !.runs[r].pc = "done", !.writer = r]
    /\ UNCHANGED <<bqDesc, options, impl>>

NextRace ==
    \E r \in Runs :
        \/ RunReadsForDraft(r)
        \/ RunReadsForComment(r)
        \/ RunWrites(r)

SpecRace == InitRace /\ [][NextRace]_vars


\* ------------------------------------------------ the two stores
\* SpecStores: generate_table_description on a client built with any options
\* (staging for review or writing directly, any description_handling), next
\* to the calls that write a draft or publish one.
InitStores ==
    /\ aspect = [e \in Tables |-> NoAspect]
    /\ bqDesc = [e \in Tables |-> <<>>]
    /\ options \in InitOptions
    /\ impl \in {"wizard", "ops"}
    /\ last = NoCall

NextStores ==
    \E e \in LifeTables :
        \/ Generate(e)
        \/ Stage(e)
        \/ MarkForRegeneration(e)
        \/ AcceptReviewItem(e)

SpecStores == InitStores /\ [][NextStores]_vars


\* ------------------------------------------------------ lifecycle states
\* toBeRegenerated as the code reads it: "to-be-regenerated" == True
Flagged(a) == a.exists /\ a.tbr = "True"
Certified(a) == a.exists /\ a.certified = "true"
HasDraft(a) == a.exists /\ a.contents # MissingText

\* the descriptions generate_table_description can produce
GeneratedTexts == {WithWarning(x, w) : x \in LlmTexts, w \in BOOLEAN}

Range(sq) == {sq[i] : i \in 1..Len(sq)}

IsPrefix(sq, tq) == Len(sq) <= Len(tq) /\ SubSeq(tq, 1, Len(sq)) = sq

Accepts == {"accept", "promote"}

\* ------------------------------------------------------------------ claims

C3_RegenerateMerges ==
    [][\A e \in Tables :
          (/\ last'.op = "generate" /\ last'.e = e /\ last'.out = "ok" /\ ~last'.lost
           /\ Flagged(aspect[e]) /\ HasDraft(aspect[e]))
          => /\ ~Flagged(aspect'[e])
             /\ ~Certified(aspect'[e])
             /\ \E x \in LlmTexts :
                    aspect'[e].contents =
                        Combine(aspect[e].contents, WithWarning(x, options.warn), "APPEND")
             /\ aspect'[e].comments = aspect[e].comments
             /\ aspect'[e].negs = aspect[e].negs]_vars

\* C4: a generate on an entity that has a draft, is not flagged, and is not
\* asked to regenerate changes nothing in the draft aspect.
C4_GenerateSkipsExistingDraft ==
    [][\A e \in Tables :
          (/\ last'.op = "generate" /\ last'.e = e
           /\ HasDraft(aspect[e]) /\ aspect[e].tbr = "false"
           /\ ~options.regenerate)
          => aspect'[e] = aspect[e]]_vars

\* C6: an accept that succeeds on an entity with a draft leaves the aspect
\* certified and unflagged and the canonical description equal to
\* combine(canonical before, draft contents, APPEND).
C6_AcceptPublishesDraft ==
    [][\A e \in Tables :
          (last'.op \in Accepts /\ last'.e = e /\ last'.out = "ok" /\ HasDraft(aspect[e]))
          => /\ Certified(aspect'[e])
             /\ ~Flagged(aspect'[e])
             /\ bqDesc'[e] = Combine(bqDesc[e], aspect[e].contents, "APPEND")]_vars

C9_SuccessMeansWritten ==
    [][\A e \in Tables :
          (last'.e = e /\ last'.out = "ok")
          => /\ (last'.op = "generate" /\ options.stage)
                => (aspect'[e].contents \in GeneratedTexts /\ aspect'[e].tbr = "false")
             /\ last'.op = "stage"
                => (aspect'[e].contents \in ManualTexts /\ aspect'[e].tbr = "false")
             /\ last'.op = "mark" => Flagged(aspect'[e])
             /\ last'.op = "comment"
                => (/\ aspect'[e].exists
                    /\ aspect[e].exists
                       => Len(aspect'[e].comments) = Len(aspect[e].comments) + 1)]_vars


\* ----------------------------------------------------------- batch claims
FlaggedTables(a) == {t \in Range(Listing) : Flagged(a[t])}
Plain == {"NAIVE", "RANDOM", "ALPHABETICAL"}
ByDocument == {"DOCUMENTED", "DOCUMENTED_THEN_REST"}

\* what a generate that took effect leaves of table t
Generated(t) ==
    IF options.stage
    THEN aspect'[t].exists /\ aspect'[t].contents \in GeneratedTexts /\ aspect'[t].tbr = "false"
    ELSE bqDesc'[t] # <<>>

\* C5: a regenerate run with strategy NAIVE, RANDOM or ALPHABETICAL passes to
\* generate only tables that were flagged when the run started; a run that
\* succeeds passes all of them and leaves none of them flagged.
C5_PlainRegeneratesFlagged ==
    [][(last'.op = "batch" /\ last'.regenerate /\ last'.strategy \in Plain)
       => /\ Range(last'.calls) \subseteq FlaggedTables(aspect)
          /\ last'.out = "ok"
             => /\ Range(last'.calls) = FlaggedTables(aspect)
                /\ \A t \in FlaggedTables(aspect) : ~Flagged(aspect'[t])]_vars

\* C8: a batch run stops at the first table whose generate fails, a rejected
\* store write included: every table passed to generate before the last one
\* holds what generate was to write, and so does the last one when the run
\* reports success.
C8_BatchStopsAtFirstFailure ==
    [][last'.op = "batch"
       => /\ \A i \in 1..(Len(last'.calls) - 1) : Generated(last'.calls[i])
          /\ (last'.out = "ok" /\ last'.calls # <<>>)
             => Generated(last'.calls[Len(last'.calls)])]_vars

\* C10: a regenerate run with strategy DOCUMENTED or DOCUMENTED_THEN_REST
\* passes to generate only tables that were flagged when the run started, and
\* fails when a flagged table is missing from the mapping.
C10_DocumentedRegeneratesFlagged ==
    [][(last'.op = "batch" /\ last'.regenerate /\ last'.strategy \in ByDocument
        /\ last'.mapping # NoUri)
       => /\ Range(last'.calls) \subseteq FlaggedTables(aspect)
          /\ (\E t \in FlaggedTables(aspect) : ~InSeq(t, FirstElements(last'.mapping)))
             => last'.out = "raise"]_vars

\* the rows of the mapping that name no table of the dataset
MissingRows(mapping) == {i \in 1..Len(mapping) : mapping[i][1] \notin Range(Listing)}

\* a first run with strategy DOCUMENTED that got as far as reading its mapping
DocumentedRun ==
    /\ last.op = "batch" /\ last.strategy = "DOCUMENTED" /\ ~last.regenerate
    /\ last.listed = "yes" /\ last.mapping # NoUri

\* C11: a first run with strategy DOCUMENTED passes to generate the rows of
\* the mapping only, in mapping order and each with its document, so never a
\* listed table the mapping does not name; a run that succeeds has passed
\* every row; when a row names a table that is not listed the run fails
\* before it passes that row or any later one, and unless a generate failed
\* first the error names that table.
C11_DocumentedFollowsMapping ==
    [][DocumentedRun'
       => /\ Len(last'.calls) <= Len(last'.mapping)
          /\ \A i \in 1..Len(last'.calls) :
                 <<last'.calls[i], last'.docs[i]>> = last'.mapping[i]
          /\ last'.out = "ok" => Len(last'.calls) = Len(last'.mapping)
          /\ \A i \in MissingRows(last'.mapping) :
                 /\ last'.out = "raise"
                 /\ Len(last'.calls) < i
                 /\ last'.named \in {"none", last'.mapping[i][1]}
                 /\ (Len(last'.calls) = i - 1 /\ \A j \in 1..(i - 1) : Generated(last'.calls[j]))
                    => last'.named = last'.mapping[i][1]]_vars

\* a DOCUMENTED run over the mapping {t1} succeeded: t1 was generated with its
\* document and the listed table t2 was left alone
C11_Witness ==
    /\ DocumentedRun /\ last.out = "ok"
    /\ last.mapping = <<Row("t1")>>
    /\ last.calls = <<"t1">> /\ last.docs = <<"doc-t1">>
    /\ ~aspect["t2"].exists /\ bqDesc["t2"] = <<>>

\* C12: a first run with strategy DOCUMENTED_THEN_REST whose mapping names
\* listed tables only raises no error of its own and passes to generate the
\* rows of the mapping, in mapping order and each with its document, then the
\* listed tables the mapping does not name, in listing order and with no
\* document; a run that succeeds has passed all of them.
C12_DocumentedThenRest ==
    [][(/\ last'.op = "batch" /\ last'.strategy = "DOCUMENTED_THEN_REST"
        /\ ~last'.regenerate /\ last'.listed = "yes" /\ last'.mapping # NoUri
        /\ MissingRows(last'.mapping) = {})
       => LET expected ==
                  last'.mapping
                      \o WithoutDoc(SelectSeq(Listing,
                              LAMBDA t : ~InSeq(t, FirstElements(last'.mapping))))
          IN /\ last'.named = "none"
             /\ Len(last'.calls) <= Len(expected)
             /\ \A i \in 1..Len(last'.calls) :
                    <<last'.calls[i], last'.docs[i]>> = expected[i]
             /\ last'.out = "ok" => Len(last'.calls) = Len(expected)]_vars

C14_CommentNeedsAspect ==
    [][\A e \in Tables :
          (last'.op \in {"comment", "negative"} /\ last'.e = e /\ ~aspect[e].exists)
          => /\ last'.out = "raise"
             /\ aspect' = aspect
             /\ bqDesc' = bqDesc]_vars

C16_CommentsInCallOrder ==
    [][\A e \in Tables :
          (last'.op = "comment" /\ last'.e = e /\ last'.out = "ok" /\ aspect[e].exists)
          => LET old == aspect[e].comments
                 new == aspect'[e].comments
             IN /\ Len(new) = Len(old) + 1
                /\ SubSeq(new, 1, Len(old)) = old
                /\ new[Len(new)].text = last'.text
                /\ new[Len(new)].id \notin ItemIds(aspect[e])
                /\ \A i, j \in 1..Len(new) : new[i].id = new[j].id => i = j]_vars

\* addComment "a" then addComment "b" were made on a table with an aspect
C16_Witness ==
    /\ last.op = "comment" /\ last.out = "ok" /\ last.text = "b" /\ last.e = "t1"
    /\ Len(aspect["t1"].comments) = 2
    /\ aspect["t1"].comments[1].text = "a"
    /\ aspect["t1"].comments[2].text = "b"
    /\ aspect["t1"].comments[1].id # aspect["t1"].comments[2].id

C18_ValidationComesFirst ==
    [][(/\ last'.op = "batch"
        /\ \/ last'.strategy \notin Strategies
           \/ last'.strategy = "DOCUMENTED" /\ last'.mapping = NoUri)
       => /\ last'.out = "raise"
          /\ last'.listed = "no"
          /\ last'.calls = <<>>
          /\ aspect' = aspect
          /\ bqDesc' = bqDesc]_vars

\* a batch call with an unknown strategy name was refused on a dataset whose
\* table t1 has a draft
C18_Witness ==
    /\ last.op = "batch" /\ last.strategy \notin Strategies /\ last.out = "raise"
    /\ aspect["t1"].exists

\* place of a table name in the lexicographic order of the names
Rank(t) == CHOOSE i \in 1..Len(AlphaOrder) : AlphaOrder[i] = t

\* C19: for every listing, NAIVE returns the tables in the order of the
\* listing, and ALPHABETICAL returns the same tables, each once, in
\* lexicographic order of their names.
C19_OrderOfStrategy ==
    last.op = "order"
    => /\ last.strategy = "NAIVE" => last.calls = last.tables
       /\ last.strategy = "ALPHABETICAL"
          => /\ Len(last.calls) = Len(last.tables)
             /\ Range(last.calls) = Range(last.tables)
             /\ \A i, j \in 1..Len(last.calls) :
                    i < j => Rank(last.calls[i]) < Rank(last.calls[j])

\* ALPHABETICAL was applied to the listing t3, t1, t2
C19_Witness ==
    /\ last.op = "order" /\ last.strategy = "ALPHABETICAL"
    /\ last.tables = <<"t3", "t1", "t2">>
    /\ last.calls = <<"t1", "t2", "t3">>

\* the description old cut before the first marker it contains, followed by
\* new; old followed by new when it contains no marker
AppendedAtMarker(old, new, res) ==
    IF \E k \in 1..Len(old) : old[k] = W
    THEN \E k \in 1..Len(old) :
            /\ old[k] = W
            /\ \A j \in 1..(k - 1) : old[j] # W
            /\ res = SubSeq(old, 1, k - 1) \o new
    ELSE res = old \o new

\* C20 as stated: for every old and every new text, combine(old, new, APPEND)
\* is old cut at the first marker followed by new when old contains the
\* marker, and old followed by new when it does not.
C20_AppendCutsAtMarker ==
    (last.op = "combine" /\ options.handling = "APPEND"
     /\ last.new # NoneText)
    => AppendedAtMarker(last.old, last.new, bqDesc["t1"])

\* C20 amended: for a new text that is not empty, combine(old, new, APPEND)
\* is old cut at the first marker followed by new when old contains the
\* marker, and old followed by new when it does not; for an empty or absent
\* new text it is old unchanged, marker and tail included.
C20_AppendCutsAtMarkerAmended ==
    (last.op = "combine" /\ options.handling = "APPEND")
    => IF last.new \in {<<>>, NoneText}
       THEN bqDesc["t1"] = last.old
       ELSE AppendedAtMarker(last.old, last.new, bqDesc["t1"])

\* a description with a marker in the middle was merged with a new text
C20_Witness ==
    /\ last.op = "combine" /\ options.handling = "APPEND"
    /\ last.old = <<"m", W, "g">>
    /\ last.new = <<W, "m">>
    /\ bqDesc["t1"] = <<"m", W, "m">>

\* number of disclaimer markers in a text
RECURSIVE Markers(_)
Markers(t) ==
    IF t = <<>> \/ t = NoneText THEN 0
    ELSE (IF Head(t) = W THEN 1 ELSE 0) + Markers(Tail(t))

C22_EmptyNewKeepsOld ==
    (last.op = "combine" /\ last.new = <<>>) => bqDesc["t1"] = last.old

\* an empty text was merged under REPLACE into a description with a marker
C22_Witness ==
    /\ last.op = "combine" /\ last.new = <<>>
    /\ options.handling = "REPLACE"
    /\ IndexOfWarning(last.old) > 0 /\ bqDesc["t1"] = last.old


\* C23: under REPLACE the merge returns the new text verbatim, whatever the
\* old text is: combine(A, B, REPLACE) = B for every A and every text B.
C23_ReplaceReturnsNew ==
    (last.op = "combine" /\ options.handling = "REPLACE" /\ last.new # NoneText)
    => bqDesc["t1"] = last.new

\* C23 amended: combine(A, B, REPLACE) = B for every A and every B that is
\* not empty.
C23_ReplaceReturnsNewAmended ==
    (last.op = "combine" /\ options.handling = "REPLACE" /\ Truthy(last.new))
    => bqDesc["t1"] = last.new

\* a text replaced a different, non-empty description
C23_Witness ==
    /\ last.op = "combine" /\ options.handling = "REPLACE"
    /\ Truthy(last.new) /\ last.old # <<>> /\ last.old # last.new
    /\ bqDesc["t1"] = last.new


C26_RetriesThenSurfaces ==
    /\ [](last.op = "llm" =>
            /\ Len(last.tries) <= 3 + 1
            /\ last.waits = [k \in 1..Len(last.waits) |-> BaseDelay * 2^(k - 1)]
            /\ \A k \in 1..(Len(last.tries) - 1) : last.tries[k] \in LlmErrors
            /\ last.out = "running"
               => (/\ \A k \in 1..Len(last.tries) : last.tries[k] \in LlmErrors
                   /\ Len(last.tries) <= 3
                   /\ Len(last.waits) = Len(last.tries))
            /\ last.out = "ok"
               => (/\ last.tries # <<>>
                   /\ last.text = last.tries[Len(last.tries)]
                   /\ last.text \in Responses
                   /\ Len(last.waits) = Len(last.tries) - 1)
            /\ last.out = "raise"
               => (/\ Len(last.tries) = 3 + 1
                   /\ last.named = last.tries[Len(last.tries)]
                   /\ last.named \in LlmErrors
                   /\ Len(last.waits) = 3))
    /\ <>(last.op = "llm" /\ last.out \in {"ok", "raise"})
    /\ [][last.out \in {"ok", "raise"} => last' = last]_vars

\* the third retry succeeded, after waits of 1, 2 and 4 times the base
C26_Witness ==
    /\ last.op = "llm" /\ last.out = "ok"
    /\ Len(last.tries) = 4 /\ last.waits = <<BaseDelay, 2 * BaseDelay, 4 * BaseDelay>>


\* C27: the draft aspect is written last-writer-wins.  Whatever the other run
\* wrote in between, the update of a run is accepted and leaves exactly the
\* aspect that run built from the entry it had read: that aspect with the new
\* contents and an unset flag for a draft update, with the new comment after
\* the comments read for an added comment.
C27_LastWriterWins ==
    [][\A r \in Runs :
          (last.op = "race" /\ last.runs[r].pc = "read" /\ last'.runs[r].pc = "done")
          => LET run == last.runs[r]
                 a == aspect'["t1"]
             IN /\ last'.writer = r
                /\ a.exists
                /\ run.op = "draft"
                   => (/\ a.contents = run.desc /\ a.tbr = "false"
                       /\ a.comments = run.snap.comments)
                /\ (run.op = "comment" /\ run.snap.exists)
                   => (/\ a.contents = run.snap.contents
                       /\ a.comments = Append(run.snap.comments,
                                              NewItem(run.id, run.text, "human")))]_vars

\* run r2 added a comment after run r1 had read the aspect, and the draft
\* update of r1 then wrote the aspect without it
C27_Witness ==
    /\ last.op = "race" /\ last.writer = "r1"
    /\ last.runs["r1"].pc = "done" /\ last.runs["r1"].op = "draft"
    /\ last.runs["r2"].pc = "done" /\ last.runs["r2"].op = "comment"
    /\ last.runs["r2"].snap = last.runs["r1"].snap
    /\ last.runs["r1"].snap.exists
    /\ aspect["t1"].comments = last.runs["r1"].snap.comments


\* C28: a batch run, in initial or in regenerate mode, returns with the
\* options of the client as they were when it was called: regenerate and
\* use_human_comments keep their values, so that a run made later on the same
\* client selects its tables as it would on a fresh client.
C28_RunKeepsOptions ==
    [][last'.op = "batch" => options' = options]_vars


====
